---- MODULE Spec2Model ----
(***************************************************************************)
(* Model of integer/src/lib.rs: the bounded limb (AssignedLimb), the       *)
(* assigned integer (AssignedInteger), its bound bookkeeping and the       *)
(* auxiliary-value construction make_aux.                                  *)
(*                                                                         *)
(* Field elements of the native field N are modelled by their canonical    *)
(* representative in 0 .. NATIVE_MODULUS - 1; big_uint values are          *)
(* unbounded naturals.  Option<T> is a sequence of length 0 (None) or 1    *)
(* (Some).  Rust arrays are indexed from 0, the sequences here from 1.     *)
(***************************************************************************)
EXTENDS Integers, Sequences, FiniteSets, TLC

\* ---------------------------------------------------------------- sizes

\* const generic NUMBER_OF_LIMBS of this instantiation
NUMBER_OF_LIMBS == 3
\* const generic BIT_LEN_LIMB of this instantiation
BIT_LEN_LIMB == 2
\* modulus of the native field N of this instantiation
NATIVE_MODULUS == 7

\* largest per-limb bound (max_val) drawn as an input
MaxBound == 4
\* largest base auxiliary constant of the parameter object
MaxBaseAux == 2
\* largest bound (max_val) of the limbs the limb methods are called on
MaxLimbBound == 7
\* largest witness integer that is decomposed into limbs
MaxWitness == 1
\* largest native-field value drawn for a single limb
MaxValue == 2
\* largest cell (location token)
MaxCell == 2
\* largest constant passed to add_big / add_fe
MaxConst == 2
\* cap of the doubling loop's counter
MaxShift == 6

LimbIdx == 1 .. NUMBER_OF_LIMBS
BoundSet == 0 .. MaxBound
CellSet == 1 .. MaxCell
FieldSet == 0 .. (NATIVE_MODULUS - 1)

\* rns.base_aux: the base auxiliary constants the parameter object supplies,
\* one per limb position, each positive
BaseAuxSet == [LimbIdx -> 1 .. MaxBaseAux]

\* ---------------------------------------------------------------- Option

None == << >>
Some(v) == << v >>
IsSome(o) == o # << >>
Unwrap(o) == o[1]

\* ---------------------------------------------------------------- maingate, rns

\* maingate::fe_to_big: the canonical representative of a field element
fe_to_big(fe) == fe

\* maingate::big_to_fe: reduction into the native field
big_to_fe(e) == e % NATIVE_MODULUS

\* maingate::compose: the fold from the most significant limb down,
\* acc = (acc << bit_len) + val
RECURSIVE composeFrom(_, _, _)
composeFrom(input, bit_len, k) ==
    IF k > Len(input) THEN 0
    ELSE input[k] + (2 ^ bit_len) * composeFrom(input, bit_len, k + 1)

compose(input, bit_len) == composeFrom(input, bit_len, 1)

\* rns::Limb::new / Limb::fe / Limb::value
Limb_new(value) == [fe |-> value]
Limb_fe(limb) == limb.fe
Limb_value(limb) == fe_to_big(limb.fe)

\* maingate::AssignedValue::new
AssignedValue_new(cell, value) == [cell |-> cell, value |-> value]

\* rns::Integer::new(limbs, rns)
Integer_new(limbs) == [limbs |-> limbs]

\* rns::Integer::from_limbs(&[N; NUMBER_OF_LIMBS], rns)
Integer_from_limbs(fes) == [limbs |-> [i \in LimbIdx |-> Limb_new(fes[i])]]

\* rns::Integer::value / Integer::native
Integer_value(int) ==
    compose([i \in LimbIdx |-> Limb_value(int.limbs[i])], BIT_LEN_LIMB)
Integer_native(int) == big_to_fe(Integer_value(int) % NATIVE_MODULUS)

\* decomposition of a big integer into NUMBER_OF_LIMBS limbs of BIT_LEN_LIMB bits
decompose(e) ==
    [i \in LimbIdx |-> (e \div (2 ^ (BIT_LEN_LIMB * (i - 1)))) % (2 ^ BIT_LEN_LIMB)]

\* ---------------------------------------------------------------- AssignedLimb

\* AssignedLimb::new(cell, value, max_val)
AssignedLimb_new(cell, value, max_val) ==
    [value |-> IF IsSome(value) THEN Some(Limb_new(Unwrap(value))) ELSE None,
     cell |-> cell,
     max_val |-> max_val]

\* faulty variant: the bound is taken from the committed value instead of the argument
AssignedLimb_from_derived(assigned, max_val) ==
    [value |-> IF IsSome(assigned.value)
               THEN Some(Limb_new(Unwrap(assigned.value))) ELSE None,
     cell |-> assigned.cell,
     max_val |-> IF IsSome(assigned.value)
                 THEN fe_to_big(Unwrap(assigned.value)) ELSE max_val]

\* AssignedLimb::from(assigned, max_val)
AssignedLimb_from(assigned, max_val) ==
    [value |-> IF IsSome(assigned.value)
               THEN Some(Limb_new(Unwrap(assigned.value))) ELSE None,
     cell |-> assigned.cell,
     max_val |-> max_val]

\* <AssignedLimb as Assigned>::value / cell
AssignedLimb_value(limb) ==
    IF IsSome(limb.value) THEN Some(Limb_fe(Unwrap(limb.value))) ELSE None
AssignedLimb_cell(limb) == limb.cell

\* AssignedLimb::limb / max_val
AssignedLimb_limb(limb) == limb.value
AssignedLimb_max_val(limb) == limb.max_val

\* AssignedLimb::add / mul2 / mul3 / add_big / add_fe
AssignedLimb_add(limb, other) == limb.max_val + other.max_val
AssignedLimb_mul2(limb) == limb.max_val + limb.max_val

\* faulty variant: one summand of the tripling is lost
AssignedLimb_mul3_two(limb) == limb.max_val + limb.max_val

AssignedLimb_mul3(limb) == limb.max_val + limb.max_val + limb.max_val
AssignedLimb_add_big(limb, other) == limb.max_val + other
AssignedLimb_add_fe(limb, other) == AssignedLimb_add_big(limb, fe_to_big(other))

\* faulty variant: the conversion keeps the value and loses the location
AssignedValue_from_nocell(limb) ==
    AssignedValue_new(0, AssignedLimb_value(limb))

\* impl From<AssignedLimb<F>> for AssignedValue<F>
AssignedValue_from(limb) ==
    AssignedValue_new(AssignedLimb_cell(limb), AssignedLimb_value(limb))

\* impl From<&AssignedLimb<F>> for AssignedValue<F>
AssignedValue_from_ref(limb) ==
    AssignedValue_new(AssignedLimb_cell(limb), AssignedLimb_value(limb))

\* ---------------------------------------------------------------- AssignedInteger

\* AssignedInteger::new(rns, limbs, native_value)
AssignedInteger_new(limbs, native_value) ==
    [limbs |-> limbs, native_value |-> native_value]

\* faulty variant: the witness value is read where the bound is meant
AssignedInteger_max_vals_value(int) ==
    [i \in LimbIdx |->
        IF IsSome(int.limbs[i].value)
        THEN Limb_value(Unwrap(int.limbs[i].value))
        ELSE AssignedLimb_max_val(int.limbs[i])]

\* AssignedInteger::max_vals
AssignedInteger_max_vals(int) ==
    [i \in LimbIdx |-> AssignedLimb_max_val(int.limbs[i])]

\* faulty variant: each bound is truncated to BIT_LEN_LIMB bits before composing
AssignedInteger_max_val_trunc(int) ==
    compose([i \in LimbIdx |->
                AssignedInteger_max_vals(int)[i] % (2 ^ BIT_LEN_LIMB)],
            BIT_LEN_LIMB)

\* AssignedInteger::max_val
AssignedInteger_max_val(int) ==
    compose(AssignedInteger_max_vals(int), BIT_LEN_LIMB)

\* AssignedInteger::limb(idx)
AssignedInteger_limb(int, idx) == AssignedValue_from(int.limbs[idx])

\* AssignedInteger::limbs / native
AssignedInteger_limbs(int) == int.limbs
AssignedInteger_native(int) == int.native_value

\* faulty variant: the limbs are collected in reverse order
AssignedInteger_integer_rev(int) ==
    IF ~IsSome(int.limbs[1].value)
    THEN [panic |-> FALSE, val |-> None]
    ELSE IF \E i \in LimbIdx : ~IsSome(AssignedLimb_limb(int.limbs[i]))
    THEN [panic |-> TRUE, val |-> None]
    ELSE [panic |-> FALSE,
          val |-> Some(Integer_new(
              [i \in LimbIdx |->
                  Unwrap(AssignedLimb_limb(int.limbs[NUMBER_OF_LIMBS + 1 - i]))]))]

\* AssignedInteger::integer: has_value looks at limbs[0] alone; under it every
\* limb is unwrapped, and unwrap() of an absent limb panics
AssignedInteger_integer(int) ==
    IF ~IsSome(int.limbs[1].value)
    THEN [panic |-> FALSE, val |-> None]
    ELSE IF \E i \in LimbIdx : ~IsSome(AssignedLimb_limb(int.limbs[i]))
    THEN [panic |-> TRUE, val |-> None]
    ELSE [panic |-> FALSE,
          val |-> Some(Integer_new(
              [i \in LimbIdx |-> Unwrap(AssignedLimb_limb(int.limbs[i]))]))]

\* ---------------------------------------------------------------- UnassignedInteger

\* UnassignedInteger::new / From<Option<Integer>>
UnassignedInteger_new(int) == int

\* UnassignedInteger::value
UnassignedInteger_value(u) ==
    IF IsSome(u) THEN Some(Integer_value(Unwrap(u))) ELSE None

\* UnassignedInteger::limb(idx)
UnassignedInteger_limb(u, idx) ==
    IF IsSome(u) THEN Some(Limb_fe(Unwrap(u).limbs[idx])) ELSE None

\* UnassignedInteger::native
UnassignedInteger_native(u) ==
    IF IsSome(u) THEN Some(Integer_native(Unwrap(u))) ELSE None

\* The constraint-synthesis layer's assignment: commits the limbs of a witness
\* integer at the cells cell0, cell0 + 1, ... with the given per-limb bounds,
\* and its native projection at the next cell.
assign_integer(u, cell0, bounds) ==
    AssignedInteger_new(
        [i \in LimbIdx |->
            AssignedLimb_new(cell0 + i - 1, UnassignedInteger_limb(u, i), bounds[i])],
        AssignedValue_new(cell0 + NUMBER_OF_LIMBS, UnassignedInteger_native(u)))

\* ---------------------------------------------------------------- state

VARIABLES
    rns,        \* the shared parameters: [base_aux]
    self,       \* the AssignedInteger the methods are called on
    a, b,       \* two AssignedLimbs the limb methods are called on
    pc,         \* "idle", "while" (inside make_aux), "done"
    idx,        \* make_aux: position of the for loop
    shift,      \* make_aux: local shift
    aux,        \* make_aux: local aux
    max_shift,  \* make_aux: local max_shift
    res,        \* what the last completed call returned: [op, val, ...]
    prev_aux    \* what make_aux returned for the previous integer with the
                \* same bounds (Option), for comparing two integers

vars == << rns, self, a, b, pc, idx, shift, aux, max_shift, res, prev_aux >>

NoRes == [op |-> "none", val |-> None]

\* a limb and an integer that are not looked at
IdleLimb == AssignedLimb_new(1, None, 0)
IdleInteger ==
    AssignedInteger_new([i \in LimbIdx |-> IdleLimb], AssignedValue_new(1, None))

\* ---------------------------------------------------------------- make_aux

\* faulty variant of aux <<= 1usize: the constant is not doubled
shl1_lost(x) == x

\* aux <<= 1usize
shl1(x) == x * 2

\* faulty variant of std::cmp::max(shift, max_shift): the last shift wins
cmp_max_last(x, y) == x

\* std::cmp::max(shift, max_shift)
cmp_max(x, y) == IF x >= y THEN x ELSE y

\* faulty variant: only the first limb is shifted
make_aux_limbs_first(base_aux, s) ==
    [i \in LimbIdx |-> big_to_fe(base_aux[i] * (2 ^ (IF i = 1 THEN s ELSE 0)))]

\* the limbs handed to Integer::from_limbs: big_to_fe(aux_limb << max_shift)
make_aux_limbs(base_aux, s) ==
    [i \in LimbIdx |-> big_to_fe(base_aux[i] * (2 ^ s))]

\* let mut max_shift = 0; let max_vals = self.max_vals(); the for loop reaches
\* its first pair: let mut shift = 1; let mut aux = aux.clone()
MakeAuxEnter ==
    /\ pc = "idle"
    /\ pc' = "while"
    /\ max_shift' = 0
    /\ idx' = 1
    /\ shift' = 1
    /\ aux' = rns.base_aux[1]
    /\ res' = NoRes
    /\ UNCHANGED << rns, self, a, b, prev_aux >>

\* one iteration of: while *max_val > aux { ... }
WhileBody ==
    /\ pc = "while"
    /\ AssignedInteger_max_vals(self)[idx] > aux
    /\ shift <= MaxShift
    /\ aux' = shl1(aux)
    /\ max_shift' = cmp_max(shift, max_shift)
    /\ shift' = shift + 1
    /\ UNCHANGED << rns, self, a, b, pc, idx, res, prev_aux >>

\* the while loop ends and the for loop goes to its next pair
ForNext ==
    /\ pc = "while"
    /\ ~(AssignedInteger_max_vals(self)[idx] > aux)
    /\ idx < NUMBER_OF_LIMBS
    /\ idx' = idx + 1
    /\ shift' = 1
    /\ aux' = rns.base_aux[idx + 1]
    /\ UNCHANGED << rns, self, a, b, pc, max_shift, res, prev_aux >>

\* the while loop of the last pair ends: Integer::from_limbs(...)
MakeAuxReturn ==
    /\ pc = "while"
    /\ ~(AssignedInteger_max_vals(self)[idx] > aux)
    /\ idx = NUMBER_OF_LIMBS
    /\ pc' = "done"
    /\ res' = [op |-> "make_aux",
               val |-> Integer_from_limbs(make_aux_limbs(rns.base_aux, max_shift))]
    /\ UNCHANGED << rns, self, a, b, idx, shift, aux, max_shift, prev_aux >>

\* self.max_val()
MaxVal ==
    /\ pc = "idle"
    /\ pc' = "done"
    /\ res' = [op |-> "max_val", val |-> AssignedInteger_max_val(self)]
    /\ UNCHANGED << rns, self, a, b, idx, shift, aux, max_shift, prev_aux >>

\* witnesses of whole integers: absent, or the limbs of a small integer
WitnessSet ==
    {None} \cup {Some(Integer_from_limbs(decompose(x))) : x \in 0 .. MaxWitness}

\* Another AssignedInteger over the same parameters with the same bound at
\* every limb position: each limb independently assigned or not, at other
\* cells, its native projection assigned or not.
SameBounds ==
    /\ pc = "done"
    /\ \E pat \in [LimbIdx -> BOOLEAN] :
         self' = AssignedInteger_new(
             [i \in LimbIdx |->
                 AssignedLimb_new(MaxCell + i,
                                  IF pat[i] THEN Some(MaxValue) ELSE None,
                                  AssignedLimb_max_val(self.limbs[i]))],
             AssignedValue_new(MaxCell + NUMBER_OF_LIMBS + 1,
                               IF pat[NUMBER_OF_LIMBS] THEN Some(MaxValue) ELSE None))
    /\ prev_aux' = IF res.op = "make_aux" THEN Some(res.val) ELSE prev_aux
    /\ pc' = "idle"
    /\ res' = NoRes
    /\ UNCHANGED << rns, a, b, idx, shift, aux, max_shift >>

Init ==
    /\ rns \in [base_aux : BaseAuxSet]
    /\ \E w \in WitnessSet, bounds \in [LimbIdx -> BoundSet] :
         self = assign_integer(UnassignedInteger_new(w), 1, bounds)
    /\ a = IdleLimb
    /\ b = IdleLimb
    /\ pc = "idle"
    /\ idx = 1
    /\ shift = 1
    /\ aux = 0
    /\ max_shift = 0
    /\ res = NoRes
    /\ prev_aux = None

\* the steps of make_aux
NextAux ==
    \/ MakeAuxEnter
    \/ WhileBody
    \/ ForNext
    \/ MakeAuxReturn

Next ==
    \/ MakeAuxEnter
    \/ WhileBody
    \/ ForNext
    \/ MakeAuxReturn
    \/ MaxVal
    \/ SameBounds

Spec == Init /\ [][Next]_vars

\* One call of make_aux.  It runs on one thread and nothing suspends it: a
\* step that can be taken is taken.
LiveSpec == Init /\ [][NextAux]_vars /\ WF_vars(NextAux)

\* ---------------------------------------------------------------- make_aux: properties

\* the bound of limb position i of self, read from the limb itself
BoundAt(i) == self.limbs[i].max_val

\* the least k >= 0 with base * 2^k >= bound
ReqShift(base, bound) ==
    CHOOSE k \in 0 .. (MaxShift + 1) :
        /\ base * (2 ^ k) >= bound
        /\ \A j \in 0 .. (k - 1) : base * (2 ^ j) < bound

\* the largest required shift over all limb positions
MaxReqShift ==
    CHOOSE s \in 0 .. (MaxShift + 1) :
        /\ \E i \in LimbIdx : s = ReqShift(rns.base_aux[i], BoundAt(i))
        /\ \A i \in LimbIdx : s >= ReqShift(rns.base_aux[i], BoundAt(i))

MakeAuxDone == pc = "done" /\ res.op = "make_aux"

\* C1: when make_aux has returned, the shift it applied is non-negative, equals
\* the maximum over the limb positions of the least number of doublings that
\* brings the base auxiliary constant to or above that limb's bound, and at
\* every position the constant shifted by it is >= the bound.
C1_MakeAuxShift ==
    MakeAuxDone =>
        /\ max_shift >= 0
        /\ max_shift = MaxReqShift
        /\ \A i \in LimbIdx : rns.base_aux[i] * (2 ^ max_shift) >= BoundAt(i)

\* C1 witness: the scenario of the specification scaled down (base constants
\* all equal, one bound four times the base): the shift is exactly 2.
C1_Witness ==
    /\ MakeAuxDone
    /\ rns.base_aux = << 1, 1, 1 >>
    /\ << BoundAt(1), BoundAt(2), BoundAt(3) >> = << 1, 4, 1 >>
    /\ max_shift = 2

\* C6 as stated: every limb of the returned Integer is, as a big integer, the
\* base auxiliary constant shifted by the one largest shift count.
C6_Original ==
    MakeAuxDone =>
        \A i \in LimbIdx :
            Limb_value(res.val.limbs[i]) = rns.base_aux[i] * (2 ^ MaxReqShift)

\* C6 amended: every limb of the returned Integer is the base auxiliary
\* constant shifted by the one largest shift count, reduced into the native
\* field; the same shift count at every position.
C6_UniformShift ==
    MakeAuxDone =>
        \A i \in LimbIdx :
            Limb_value(res.val.limbs[i]) =
                (rns.base_aux[i] * (2 ^ MaxReqShift)) % NATIVE_MODULUS

\* C6 witness: two positions needed no doubling and are shifted all the same.
C6_Witness ==
    /\ MakeAuxDone
    /\ rns.base_aux = << 1, 1, 1 >>
    /\ << BoundAt(1), BoundAt(2), BoundAt(3) >> = << 1, 4, 1 >>
    /\ res.val = Integer_from_limbs(<< 4, 4, 4 >>)

\* C10: make_aux of an integer returns what it returned for the previous
\* integer, which had the same bound at every position and other limb values,
\* cells and native projection.
C10_BoundsOnly ==
    (MakeAuxDone /\ IsSome(prev_aux)) => res.val = Unwrap(prev_aux)

\* C10 witness: make_aux has returned for a second integer some of whose limbs
\* are unassigned and some assigned.
C10_Witness ==
    /\ MakeAuxDone
    /\ IsSome(prev_aux)
    /\ \E i \in LimbIdx : ~IsSome(self.limbs[i].value)
    /\ \E i \in LimbIdx : IsSome(self.limbs[i].value)
    /\ max_shift > 0

RECURSIVE PositionalSum(_)
PositionalSum(k) ==
    IF k > NUMBER_OF_LIMBS THEN 0
    ELSE BoundAt(k) * (2 ^ ((k - 1) * BIT_LEN_LIMB)) + PositionalSum(k + 1)

\* C4: max_val() is the sum of the per-limb bounds, the bound of position i
\* weighted by 2^(i * BIT_LEN_LIMB) with the first limb least significant.
C4_MaxValPositional ==
    (pc = "done" /\ res.op = "max_val") => res.val = PositionalSum(1)

\* C4 witness: max_val() returned for an integer whose first bound does not fit
\* into BIT_LEN_LIMB bits.
C4_Witness ==
    /\ pc = "done"
    /\ res.op = "max_val"
    /\ BoundAt(1) >= 2 ^ BIT_LEN_LIMB
    /\ BoundAt(2) = 1
    /\ res.val = BoundAt(1) + 2 ^ BIT_LEN_LIMB + BoundAt(3) * (2 ^ (2 * BIT_LEN_LIMB))

\* ---------------------------------------------------------------- limb methods

\* Option<F> inputs and committed values
ValueSet == {None} \cup {Some(v) : v \in 0 .. MaxValue}
AssignedValueSet == {AssignedValue_new(c, v) : c \in CellSet, v \in ValueSet}
LimbBoundSet == 0 .. MaxLimbBound

\* a = AssignedLimb::new(cell, value, max_val)
LimbNew ==
    /\ pc = "idle"
    /\ \E cell \in CellSet, value \in ValueSet, max_val \in LimbBoundSet :
         /\ a' = AssignedLimb_new(cell, value, max_val)
         /\ res' = [op |-> "new", val |-> None, in_cell |-> cell,
                    in_value |-> value, in_max |-> max_val]
    /\ pc' = "built"
    /\ UNCHANGED << rns, self, b, idx, shift, aux, max_shift, prev_aux >>

\* a = AssignedLimb::from(assigned, max_val)
LimbFrom ==
    /\ pc = "idle"
    /\ \E assigned \in AssignedValueSet, max_val \in LimbBoundSet :
         /\ a' = AssignedLimb_from(assigned, max_val)
         /\ res' = [op |-> "from", val |-> None, in_cell |-> assigned.cell,
                    in_value |-> assigned.value, in_max |-> max_val]
    /\ pc' = "built"
    /\ UNCHANGED << rns, self, b, idx, shift, aux, max_shift, prev_aux >>

\* a.add(&b)
LimbAdd ==
    /\ pc = "built"
    /\ res' = [op |-> "add", val |-> AssignedLimb_add(a, b)]
    /\ pc' = "done"
    /\ UNCHANGED << rns, self, a, b, idx, shift, aux, max_shift, prev_aux >>

\* a.mul2()
LimbMul2 ==
    /\ pc = "built"
    /\ res' = [op |-> "mul2", val |-> AssignedLimb_mul2(a)]
    /\ pc' = "done"
    /\ UNCHANGED << rns, self, a, b, idx, shift, aux, max_shift, prev_aux >>

\* a.mul3()
LimbMul3 ==
    /\ pc = "built"
    /\ res' = [op |-> "mul3", val |-> AssignedLimb_mul3(a)]
    /\ pc' = "done"
    /\ UNCHANGED << rns, self, a, b, idx, shift, aux, max_shift, prev_aux >>

\* a.add_big(c)
LimbAddBig ==
    /\ pc = "built"
    /\ \E c \in 0 .. MaxConst :
         res' = [op |-> "add_big", val |-> AssignedLimb_add_big(a, c), in_c |-> c]
    /\ pc' = "done"
    /\ UNCHANGED << rns, self, a, b, idx, shift, aux, max_shift, prev_aux >>

\* a.add_fe(c)
LimbAddFe ==
    /\ pc = "built"
    /\ \E c \in 0 .. MaxConst :
         res' = [op |-> "add_fe", val |-> AssignedLimb_add_fe(a, big_to_fe(c)),
                 in_c |-> big_to_fe(c)]
    /\ pc' = "done"
    /\ UNCHANGED << rns, self, a, b, idx, shift, aux, max_shift, prev_aux >>

\* b is a limb built before; a is built by the first step
InitLimb ==
    /\ rns = [base_aux |-> [i \in LimbIdx |-> 1]]
    /\ self = IdleInteger
    /\ a = IdleLimb
    /\ \E value \in ValueSet, max_val \in LimbBoundSet :
         b = AssignedLimb_new(MaxCell + 1, value, max_val)
    /\ pc = "idle"
    /\ idx = 1
    /\ shift = 1
    /\ aux = 0
    /\ max_shift = 0
    /\ res = NoRes
    /\ prev_aux = None

NextLimb ==
    \/ LimbNew
    \/ LimbFrom
    \/ LimbAdd
    \/ LimbMul2
    \/ LimbMul3
    \/ LimbAddBig
    \/ LimbAddFe

SpecLimb == InitLimb /\ [][NextLimb]_vars

\* a limb has been built by new or from, and no method has returned since
LimbBuilt == pc = "built" /\ res.op \in {"new", "from"}

\* C3 as stated: a present value of a limb built by new or from never exceeds
\* the limb's max_val.
C3_Original ==
    LimbBuilt =>
        (IsSome(a.value) => Limb_value(Unwrap(a.value)) <= a.max_val)

\* C3 amended: a limb built by new or from holds exactly the value, cell and
\* max_val it was given, unchecked: a present value is <= max_val exactly when
\* the value and max_val given to the constructor are so.
C3_StoresArguments ==
    LimbBuilt =>
        /\ a.max_val = res.in_max
        /\ a.cell = res.in_cell
        /\ IsSome(a.value) = IsSome(res.in_value)
        /\ IsSome(a.value) => Limb_fe(Unwrap(a.value)) = Unwrap(res.in_value)
        /\ (IsSome(a.value) => Limb_value(Unwrap(a.value)) <= a.max_val)
             <=> (IsSome(res.in_value) => fe_to_big(Unwrap(res.in_value)) <= res.in_max)

\* C3 witness: from() was given a concrete value within the bound, and the
\* limb it built satisfies the invariant.
C3_Witness ==
    /\ res.op = "from"
    /\ res.in_value = Some(MaxValue)
    /\ res.in_max >= MaxValue
    /\ IsSome(a.value)
    /\ Limb_value(Unwrap(a.value)) <= a.max_val

\* C5: add, mul2, mul3, add_big and add_fe return the sum of the operand
\* bounds and of the constant, whatever the witness values are.
C5_LinearBounds ==
    /\ res.op = "add" => res.val = a.max_val + b.max_val
    /\ res.op = "mul2" => res.val = 2 * a.max_val
    /\ res.op = "mul3" => res.val = 3 * a.max_val
    /\ res.op = "add_big" => res.val = a.max_val + res.in_c
    /\ res.op = "add_fe" => res.val = a.max_val + res.in_c

\* C5 witness: adding limbs with the bounds 5 and 7 gave 12, both limbs
\* holding a value.
C5_Witness ==
    /\ res.op = "add"
    /\ a.max_val = 5
    /\ b.max_val = 7
    /\ IsSome(a.value)
    /\ IsSome(b.value)
    /\ res.val = 12

\* ---------------------------------------------------------------- integer methods

\* self.integer(); the unwrap() of an absent limb aborts the call
IntegerCall ==
    /\ pc = "idle"
    /\ LET r == AssignedInteger_integer(self) IN
         /\ res' = [op |-> "integer", val |-> r.val, panic |-> r.panic]
         /\ pc' = IF r.panic THEN "panicked" ELSE "done"
    /\ UNCHANGED << rns, self, a, b, idx, shift, aux, max_shift, prev_aux >>

\* the Integer that integer() returned is assigned again, at other cells, with
\* the bounds of self
Reassign ==
    /\ pc = "done"
    /\ res.op = "integer"
    /\ IsSome(res.val)
    /\ \E cell0 \in CellSet :
         res' = [op |-> "reassign",
                 val |-> assign_integer(UnassignedInteger_new(res.val), cell0,
                                        AssignedInteger_max_vals(self))]
    /\ UNCHANGED << rns, self, a, b, pc, idx, shift, aux, max_shift, prev_aux >>

\* self.limb(idx)
LimbCall ==
    /\ pc = "idle"
    /\ \E i \in LimbIdx :
         res' = [op |-> "limb", val |-> AssignedInteger_limb(self, i), in_idx |-> i]
    /\ pc' = "done"
    /\ UNCHANGED << rns, self, a, b, idx, shift, aux, max_shift, prev_aux >>

\* AssignedValue::from(&self.limbs[idx])
IntoRefCall ==
    /\ pc = "idle"
    /\ \E i \in LimbIdx :
         res' = [op |-> "into_ref", val |-> AssignedValue_from_ref(self.limbs[i]),
                 in_idx |-> i]
    /\ pc' = "done"
    /\ UNCHANGED << rns, self, a, b, idx, shift, aux, max_shift, prev_aux >>

\* AssignedLimb::from(AssignedValue::from(l), l.max_val()) for l = self.limbs[idx]
FromIntoCall ==
    /\ pc = "idle"
    /\ \E i \in LimbIdx :
         res' = [op |-> "from_into",
                 val |-> AssignedLimb_from(AssignedValue_from(self.limbs[i]),
                                           AssignedLimb_max_val(self.limbs[i])),
                 in_idx |-> i]
    /\ pc' = "done"
    /\ UNCHANGED << rns, self, a, b, idx, shift, aux, max_shift, prev_aux >>

\* every assignment pattern of the limbs, any native projection; the bounds
\* bound0, bound0 + 1, ... and the cells cell0, cell0 + 1, ...
InitInt ==
    /\ rns = [base_aux |-> [i \in LimbIdx |-> 1]]
    /\ \E values \in [LimbIdx -> ValueSet], bound0 \in BoundSet, cell0 \in CellSet,
          native \in {None} \cup {Some(v) : v \in FieldSet} :
         self = AssignedInteger_new(
             [i \in LimbIdx |-> AssignedLimb_new(cell0 + i - 1, values[i], bound0 + i - 1)],
             AssignedValue_new(cell0 + NUMBER_OF_LIMBS, native))
    /\ a = IdleLimb
    /\ b = IdleLimb
    /\ pc = "idle"
    /\ idx = 1
    /\ shift = 1
    /\ aux = 0
    /\ max_shift = 0
    /\ res = NoRes
    /\ prev_aux = None

NextInt ==
    \/ IntegerCall
    \/ Reassign
    \/ LimbCall
    \/ IntoRefCall
    \/ FromIntoCall

SpecInt == InitInt /\ [][NextInt]_vars

AllAssigned == \A i \in LimbIdx : IsSome(self.limbs[i].value)

\* C2 as stated: integer() never aborts, returns a present Integer only if
\* every limb holds a value, and returns absent if any limb is unassigned.
C2_Original ==
    (pc # "idle" /\ res.op = "integer") =>
        /\ ~res.panic
        /\ IsSome(res.val) => AllAssigned
        /\ ~AllAssigned => res.val = None

\* the native-field reduction of the positional composition of the limb values
\* of self, from position k on
RECURSIVE ValueSum(_)
ValueSum(k) ==
    IF k > NUMBER_OF_LIMBS THEN 0
    ELSE Unwrap(self.limbs[k].value).fe * (2 ^ ((k - 1) * BIT_LEN_LIMB))
         + ValueSum(k + 1)

NativeConsistent ==
    AllAssigned /\ self.native_value.value = Some(ValueSum(1) % NATIVE_MODULUS)

SameLimbsReassigned ==
    \A i \in LimbIdx :
        /\ res.val.limbs[i].value = self.limbs[i].value
        /\ res.val.limbs[i].max_val = self.limbs[i].max_val

\* C7 as stated: the re-assigned integer has the limb values, the bounds and
\* the native projection of the original.
C7_Original ==
    res.op = "reassign" =>
        /\ SameLimbsReassigned
        /\ res.val.native_value.value = self.native_value.value

\* C7 amended: integer() of a fully assigned integer returns the limb values
\* in order; re-assigning it with the same bounds gives the same limb values,
\* and as native projection the native-field reduction of the limbs'
\* composition, which is the original's when the original's was that.
C7_RoundTrip ==
    /\ (pc = "done" /\ res.op = "integer" /\ AllAssigned) =>
          /\ IsSome(res.val)
          /\ \A i \in LimbIdx :
                Unwrap(res.val).limbs[i] = Unwrap(self.limbs[i].value)
    /\ res.op = "reassign" =>
          /\ SameLimbsReassigned
          /\ res.val.native_value.value = Some(ValueSum(1) % NATIVE_MODULUS)
          /\ NativeConsistent =>
                res.val.native_value.value = self.native_value.value

\* C7 witness: a fully assigned integer with distinct limb values and a
\* consistent native projection has been re-assigned.
C7_Witness ==
    /\ res.op = "reassign"
    /\ NativeConsistent
    /\ self.limbs[1].value # self.limbs[NUMBER_OF_LIMBS].value
    /\ ValueSum(1) >= NATIVE_MODULUS

\* C8: the conversion of a limb to an AssignedValue (by value in limb(idx), by
\* reference) has the limb's native-field value or absence and its cell, and
\* no bound; from() of it with the limb's max_val is the limb again.
C8_Conversions ==
    /\ res.op \in {"limb", "into_ref"} =>
          /\ DOMAIN res.val = {"cell", "value"}
          /\ res.val.cell = self.limbs[res.in_idx].cell
          /\ IsSome(res.val.value) = IsSome(self.limbs[res.in_idx].value)
          /\ IsSome(res.val.value) =>
                Unwrap(res.val.value) = Unwrap(self.limbs[res.in_idx].value).fe
    /\ res.op = "from_into" => res.val = self.limbs[res.in_idx]

\* C8 witness: limb(idx) returned for an assigned limb that is not the first.
C8_Witness ==
    /\ res.op = "limb"
    /\ res.in_idx = 2
    /\ res.val.value = Some(MaxValue)
    /\ res.val.cell = self.limbs[2].cell

====
